---- MODULE Spec2Model ----
(***************************************************************************)
(* tinyjson: a DOM JSON parser (src/tinyJson.h, src/tinyJson.cpp).         *)
(*                                                                         *)
(* The model follows the DEBUG build, the only configuration in which the  *)
(* header compiles (MemPoolT's constructor and Alloc use _nUntracked,      *)
(* which is declared under #ifdef DEBUG only); TJASSERT is assert there.   *)
(*                                                                         *)
(* Text is a sequence of bytes; a byte is a one-character string.  A       *)
(* char* is an index into the memory that starts with the document buffer: *)
(* 0 is nullptr and WILD is a pointer computed from nullptr.               *)
(***************************************************************************)
EXTENDS Integers, Sequences, FiniteSets, TLC

----------------------------------------------------------------------------
(* Bounds of the model *)

\* longest freely combined input, in tokens
MaxLen == 2
\* bytes of foreign memory modelled behind the document buffer
TailLen == 2
\* Parse calls made on one Document in SpecSeq
MaxParses == 2
\* visitor callbacks that answer false in one traversal
MaxStops == 2
\* Alloc and Free calls made on the pool of SpecPool
MaxPoolOps == 7
\* slots taken and given back in one reuse cycle of SpecPool
MaxCycle == 3

\* nodes alive besides the Document, and calls in a run of tree operations
MaxNodes == 3

MaxTreeOps == 6

----------------------------------------------------------------------------
(* Bytes and pointers *)

NUL == "NUL"
\* what a read returns when the access faults; equal to no byte
FAULT == "FAULT"
NULL == <<>>
WILD == 0 - 1

\* isspace() in the "C" locale without \v, and no byte of the model has
\* its high bit set, so IsUTF8Continuation is false throughout
WhiteSpace == {" ", "\t", "\n", "\r", "\f"}
Digits == {"0", "1", "2", "3", "4", "5", "6", "7", "8", "9"}

DigitVal(c) ==
  CASE c = "0" -> 0 [] c = "1" -> 1 [] c = "2" -> 2 [] c = "3" -> 3
    [] c = "4" -> 4 [] c = "5" -> 5 [] c = "6" -> 6 [] c = "7" -> 7
    [] c = "8" -> 8 [] c = "9" -> 9

DigitChar(n) ==
  CASE n = 0 -> "0" [] n = 1 -> "1" [] n = 2 -> "2" [] n = 3 -> "3"
    [] n = 4 -> "4" [] n = 5 -> "5" [] n = 6 -> "6" [] n = 7 -> "7"
    [] n = 8 -> "8" [] n = 9 -> "9"

\* ++json, json + n
Add(p, n) == IF p = WILD \/ p = 0 THEN WILD ELSE p + n
Inc(p) == Add(p, 1)

----------------------------------------------------------------------------
(* enum class JsonError *)

JSON_NO_ERROR == "JSON_NO_ERROR"
JSON_ERROR_OBJECT_MISMATCH == "JSON_ERROR_OBJECT_MISMATCH"
JSON_ERROR_ARRAY_MISMATCH == "JSON_ERROR_ARRAY_MISMATCH"
JSON_ERROR_PARSING_ELEMENT == "JSON_ERROR_PARSING_ELEMENT"
JSON_ERROR_PARSING_STRING == "JSON_ERROR_PARSING_STRING"
JSON_ERROR_PARSING_RESERVED == "JSON_ERROR_PARSING_RESERVED"
JSON_ERROR_PARSING == "JSON_ERROR_PARSING"
JSON_ERROR_EMPTY_DOCUMENT == "JSON_ERROR_EMPTY_DOCUMENT"

(* enum class JsonReserved::Type *)
RESERVED == "RESERVED"
RESERVED_NULL == "RESERVED_NULL"
RESERVED_TRUE == "RESERVED_TRUE"
RESERVED_FALSE == "RESERVED_FALSE"

----------------------------------------------------------------------------
(* MemPoolT< SIZE >: a chunk is <<block, index>>, _root and the next       *)
(* pointers that live inside the free chunks make the freelist.            *)

BLOCK_BYTES == 1024
INIT == 10

COUNT(SIZE) == BLOCK_BYTES \div SIZE

\* DynArray< Block *, 10 >::Push with EnsureCapacity
Push(arr, t) ==
  LET cap == Len(arr.mem) + 1
  IN [mem |-> Append(arr.mem, t),
      allocated |-> IF cap > arr.allocated THEN cap * 2 ELSE arr.allocated]

MemPoolT(SIZE) ==
  [SIZE |-> SIZE,
   blockPtrs |-> [mem |-> <<>>, allocated |-> INIT],
   root |-> NULL,
   next |-> <<>>,
   currentAllocs |-> 0,
   nAllocs |-> 0,
   maxAllocs |-> 0,
   nUntracked |-> 0]

CurrentAllocs(pool) == pool.currentAllocs
Untracked(pool) == pool.nUntracked
Blocks(pool) == Len(pool.blockPtrs.mem)

\* a new block is linked into the freelist even when slots are still free
AllocEagerBlock(pool) ==
  LET block == Len(pool.blockPtrs.mem) + 1
      n == COUNT(pool.SIZE)
      links == [c \in {<<block, i>> : i \in 0..(n - 1)} |->
                  IF c[2] < n - 1 THEN <<block, c[2] + 1>> ELSE pool.root]
      Take(p, result) ==
        [pool |-> [p EXCEPT !.root = p.next[result],
                            !.next = [c \in (DOMAIN p.next) \ {result} |-> p.next[c]],
                            !.currentAllocs = @ + 1,
                            !.maxAllocs = IF p.currentAllocs + 1 > @
                                          THEN p.currentAllocs + 1 ELSE @,
                            !.nAllocs = @ + 1,
                            !.nUntracked = @ + 1],
         result |-> result]
  IN IF pool.root = NULL \/ pool.currentAllocs = 0
     THEN Take([pool EXCEPT !.blockPtrs = Push(@, block),
                            !.next = links @@ @,
                            !.root = <<block, 0>>], <<block, 0>>)
     ELSE Take(pool, pool.root)

Alloc(pool) ==
  LET block == Len(pool.blockPtrs.mem) + 1
      n == COUNT(pool.SIZE)
      links == [c \in {<<block, i>> : i \in 0..(n - 1)} |->
                  IF c[2] < n - 1 THEN <<block, c[2] + 1>> ELSE NULL]
      Take(p, result) ==
        [pool |-> [p EXCEPT !.root = p.next[result],
                            !.next = [c \in (DOMAIN p.next) \ {result} |-> p.next[c]],
                            !.currentAllocs = @ + 1,
                            !.maxAllocs = IF p.currentAllocs + 1 > @
                                          THEN p.currentAllocs + 1 ELSE @,
                            !.nAllocs = @ + 1,
                            !.nUntracked = @ + 1],
         result |-> result]
  IN IF pool.root = NULL
     THEN Take([pool EXCEPT !.blockPtrs = Push(@, block),
                            !.next = links @@ @,
                            !.root = <<block, 0>>], <<block, 0>>)
     ELSE Take(pool, pool.root)

Free(pool, mem) ==
  IF mem = NULL THEN pool
  ELSE [pool EXCEPT !.currentAllocs = @ - 1,
                    !.next = (mem :> pool.root) @@ @,
                    !.root = mem]

SetTracked(pool) == [pool EXCEPT !.nUntracked = @ - 1]

----------------------------------------------------------------------------
(* The process state threaded through the calls of one operation.          *)
(*   heap        the live nodes: address -> fields (a freed node is gone)  *)
(*   pools       the six MemPoolT members of the Document                  *)
(*   charBuffer  the memory at _charBuffer: the buffer, then foreign bytes *)
(*   size        the bytes of it that belong to the buffer                 *)
(*   nullByte, tail   what address 0 and the memory behind the buffer hold *)
(*   ret, node   the value a call returns and its out-parameter            *)
(*   nullRead, oob, fault, abort: a null cursor was read; memory behind    *)
(*   the buffer was read or written; an access faulted; a TJASSERT failed  *)

DOC == <<"document">>

PoolNames ==
  {"objectPool", "arrayPool", "elementPool", "numberPool", "stringPool", "reservedPool"}

\* sizeof of the node classes on an LP64 target
SizeofJsonObject == 64
SizeofJsonArray == 64
SizeofJsonElement == 64
SizeofJsonNumber == 72
SizeofJsonString == 80
SizeofJsonReserved == 72

ItemSize(name) ==
  CASE name = "objectPool" -> SizeofJsonObject
    [] name = "arrayPool" -> SizeofJsonArray
    [] name = "elementPool" -> SizeofJsonElement
    [] name = "numberPool" -> SizeofJsonNumber
    [] name = "stringPool" -> SizeofJsonString
    [] name = "reservedPool" -> SizeofJsonReserved

\* JsonNode::JsonNode and the constructors of the node classes
JsonNode(kind, pool) ==
  [kind |-> kind, memPool |-> pool,
   parent |-> NULL, firstChild |-> NULL, lastChild |-> NULL,
   next |-> NULL, prev |-> NULL,
   type |-> RESERVED,
   valueFloat |-> [neg |-> FALSE, mag |-> 0], valueInt |-> 0,
   start |-> 0, end |-> 0]

ChunkOf(node) == <<node[2], node[3]>>

Ret(d, v) == [d EXCEPT !.ret = v]

TJASSERT(d, x) == IF x THEN d ELSE [d EXCEPT !.abort = TRUE]

\* *p
Byte(d, p) ==
  IF p = 0 THEN d.nullByte
  ELSE IF p = WILD \/ p > Len(d.charBuffer) \/ d.fault THEN FAULT
  ELSE d.charBuffer[p]

\* what the access *p does to the process besides yielding Byte(d, p)
Touch(d, p) ==
  IF p >= 1 /\ p <= d.size THEN d
  ELSE [d EXCEPT !.nullRead = @ \/ p = 0,
                 !.oob = @ \/ p > d.size,
                 !.fault = @ \/ Byte(d, p) = FAULT]

----------------------------------------------------------------------------
(* JsonNode: the intrusive child list *)

Unlink(d, this, child) ==
  LET First(h) == IF child = h[this].firstChild
                  THEN [h EXCEPT ![this].firstChild = h[h[this].firstChild].next]
                  ELSE h
      Last(h) == IF child = h[this].lastChild
                 THEN [h EXCEPT ![this].lastChild = h[h[this].lastChild].prev]
                 ELSE h
      Before(h) == IF h[child].prev # NULL
                   THEN [h EXCEPT ![h[child].prev].next = h[child].next]
                   ELSE h
      After(h) == IF h[child].next # NULL
                  THEN [h EXCEPT ![h[child].next].prev = h[child].prev]
                  ELSE h
      Orphan(h) == [h EXCEPT ![child].parent = NULL]
  IN [TJASSERT(d, d.heap[child].parent = this)
        EXCEPT !.heap = Orphan(After(Before(Last(First(@)))))]

\* InsertEndChild without the DEBUG bookkeeping of its last line
InsertEndChildUntracked(d, this, node) ==
  LET h == d.heap
      last == h[this].lastChild
      h1 == IF last # NULL
            THEN [h EXCEPT ![last].next = node,
                           ![node].prev = last,
                           ![this].lastChild = node,
                           ![node].next = NULL]
            ELSE [h EXCEPT ![this].firstChild = node,
                           ![this].lastChild = node,
                           ![node].prev = NULL,
                           ![node].next = NULL]
  IN [d EXCEPT !.heap = [h1 EXCEPT ![node].parent = this]]

InsertEndChild(d, this, node) ==
  LET h == d.heap
      last == h[this].lastChild
      a == IF last # NULL
           THEN TJASSERT(TJASSERT(d, h[this].firstChild # NULL), h[last].next = NULL)
           ELSE TJASSERT(d, h[this].firstChild = NULL)
      h1 == IF last # NULL
            THEN [h EXCEPT ![last].next = node,
                           ![node].prev = last,
                           ![this].lastChild = node,
                           ![node].next = NULL]
            ELSE [h EXCEPT ![this].firstChild = node,
                           ![this].lastChild = node,
                           ![node].prev = NULL,
                           ![node].next = NULL]
  IN [a EXCEPT !.heap = [h1 EXCEPT ![node].parent = this],
               !.pools[h[node].memPool] = SetTracked(@)]

RECURSIVE DeleteChildren(_, _)
RECURSIVE DeleteNode(_, _)

\* the destructor ~JsonNode, then the slot goes back to its pool
DeleteNode(d, node) ==
  IF node = NULL THEN d
  ELSE LET Detach(d1) == IF d1.heap[node].parent # NULL
                         THEN Unlink(d1, d1.heap[node].parent, node)
                         ELSE d1
           Release(d2) ==
             [d2 EXCEPT !.heap = [a \in (DOMAIN d2.heap) \ {node} |-> d2.heap[a]],
                        !.pools[d.heap[node].memPool] = Free(@, ChunkOf(node))]
       IN Release(Detach(DeleteChildren(d, node)))

DeleteChildren(d, this) ==
  IF d.heap[this].firstChild # NULL
  THEN LET node == d.heap[this].firstChild
       IN DeleteChildren(DeleteNode(Unlink(d, this, node), node), this)
  ELSE [d EXCEPT !.heap[this].firstChild = NULL, !.heap[this].lastChild = NULL]

----------------------------------------------------------------------------
(* JsonDocument: error slot, Identify, CreatElement *)

\* the last error recorded wins
SetErrorLastWins(d, error) ==
  [d EXCEPT !.errorID = error, !.errorStr1 = 0, !.errorStr2 = 0,
            !.setErrors = Append(@, error)]

\* every call in the source passes 0, 0 for str1, str2
SetError(d, error) ==
  LET d1 == [d EXCEPT !.setErrors = Append(@, error)]
  IN IF d.errorID = JSON_NO_ERROR
     THEN [d1 EXCEPT !.errorID = error, !.errorStr1 = 0, !.errorStr2 = 0]
     ELSE d1

\* the error slot is left as the last Parse set it
InitDocumentKeepsError(d) == [d EXCEPT !.charBuffer = <<>>, !.size = 0]

InitDocument(d) ==
  [d EXCEPT !.errorID = JSON_NO_ERROR, !.errorStr1 = 0, !.errorStr2 = 0,
            !.charBuffer = <<>>, !.size = 0]

\* ~JsonDocument: the children go, then the DEBUG build compares the
\* counters of every pool of a Document without error
JsonDocumentDestructor(d) ==
  LET Checked(s) ==
        IF s.errorID = JSON_NO_ERROR
        THEN TJASSERT(s, \A n \in PoolNames :
                           CurrentAllocs(s.pools[n]) = Untracked(s.pools[n]))
        ELSE s
      Freed(s) == Checked([s EXCEPT !.charBuffer = <<>>])
  IN Freed(DeleteChildren(d, DOC))

RECURSIVE SkipWhiteSpace(_, _)
SkipWhiteSpace(d, p) ==
  IF p = 0 THEN Ret(d, 0)
  ELSE IF Byte(d, p) \in WhiteSpace THEN SkipWhiteSpace(Touch(d, p), Inc(p))
  ELSE Ret(Touch(d, p), p)

\* JsonUtil::SkipWhiteSpace(p) with the cursor a routine returned
SkipWhiteSpaceAt(d) == SkipWhiteSpace(d, d.ret)

\* new (pool.Alloc()) T(this); returnNode->_memPool = &pool
Create(d, kind, pool) ==
  LET Construct(a) ==
        [d EXCEPT !.pools[pool] = a.pool,
                  !.heap = (<<pool>> \o a.result :> JsonNode(kind, pool)) @@ @,
                  !.node = <<pool>> \o a.result]
  IN Construct(Alloc(d.pools[pool]))

Identify(d, json) ==
  LET At(s, p, c) ==
        IF p = 0 \/ c = NUL THEN [s EXCEPT !.node = NULL]
        ELSE IF c \in {"n", "t", "f"} THEN Ret(Create(s, "Reserved", "reservedPool"), p)
        ELSE IF c = "\"" THEN Ret(Create(s, "String", "stringPool"), Inc(p))
        ELSE IF c = "{" THEN Ret(Create(s, "Object", "objectPool"), Inc(p))
        ELSE IF c = "[" THEN Ret(Create(s, "Array", "arrayPool"), Inc(p))
        ELSE IF c = "-" \/ c \in Digits THEN Ret(Create(s, "Number", "numberPool"), p)
        ELSE [s EXCEPT !.node = NULL]
      Skipped(s) == At(s, s.ret, Byte(s, s.ret))
  IN Skipped(SkipWhiteSpace(d, json))

CreatElement(d) == Create(d, "Element", "elementPool")

----------------------------------------------------------------------------
(* The parse routines.  Each returns the process state with ret set to the *)
(* cursor the C++ routine returns (0: failure).                            *)

\* the length of the longest prefix of lit found at json
RECURSIVE MatchLen(_, _, _)
MatchLen(d, json, lit) ==
  IF lit = <<>> \/ Byte(d, json) # Head(lit) THEN 0
  ELSE 1 + MatchLen(d, Inc(json), Tail(lit))

\* !strncmp(json, lit, Len(lit)); strncmp stops at the first difference
StrNEq(d, json, lit) == MatchLen(d, json, lit) = Len(lit)

\* the state after strncmp has read its last byte
StrNTouch(d, json, lit) ==
  LET m == MatchLen(d, json, lit)
  IN Touch(d, Add(json, IF m = Len(lit) THEN m - 1 ELSE m))

JsonReservedParseDeep(d, this, json) ==
  IF StrNEq(d, json, <<"n", "u", "l", "l">>)
  THEN Ret([StrNTouch(d, json, <<"n", "u", "l", "l">>)
              EXCEPT !.heap[this].type = RESERVED_NULL], Add(json, 4))
  ELSE IF StrNEq(d, json, <<"t", "r", "u", "e">>)
  THEN Ret([StrNTouch(d, json, <<"t", "r", "u", "e">>)
              EXCEPT !.heap[this].type = RESERVED_TRUE], Add(json, 4))
  ELSE IF StrNEq(d, json, <<"f", "a", "l", "s", "e">>)
  THEN Ret([StrNTouch(d, json, <<"f", "a", "l", "s", "e">>)
              EXCEPT !.heap[this].type = RESERVED_FALSE], Add(json, 5))
  ELSE Ret(SetError(StrNTouch(StrNTouch(StrNTouch(d,
              json, <<"n", "u", "l", "l">>),
              json, <<"t", "r", "u", "e">>),
              json, <<"f", "a", "l", "s", "e">>), JSON_ERROR_PARSING_RESERVED), 0)

RECURSIVE DigitsEnd(_, _)
DigitsEnd(d, p) == IF Byte(d, p) \in Digits THEN DigitsEnd(d, Inc(p)) ELSE p

\* the number written in the bytes [p, q)
RECURSIVE DigitsValue(_, _, _, _)
DigitsValue(d, p, q, acc) ==
  IF p = q THEN acc ELSE DigitsValue(d, p + 1, q, acc * 10 + DigitVal(d.charBuffer[p]))

\* strtod(json, &endptr) on an optional sign and decimal digits.  The bytes
\* of the model hold no '.', 'x' or 'i', and 'e', 'n', 'a' only inside the
\* words true, false, null, which never follow a digit or a sign directly:
\* fractions, exponents, hexadecimal, inf and nan do not arise.
Strtod(d, json) ==
  LET signed == Byte(d, json) \in {"-", "+"}
      first == IF signed THEN Inc(json) ELSE json
      endptr == DigitsEnd(d, first)
  IN IF endptr = first
     THEN [endptr |-> json, read |-> first, n |-> [neg |-> FALSE, mag |-> 0]]
     ELSE [endptr |-> endptr, read |-> endptr,
           n |-> [neg |-> Byte(d, json) = "-", mag |-> DigitsValue(d, first, endptr, 0)]]

\* (int)n
IntOf(n) == IF n.neg THEN 0 - n.mag ELSE n.mag

JsonNumberParseDeep(d, this, json) ==
  LET Converted(s, r) ==
        IF r.endptr # s.ret
        THEN Ret([Touch(s, r.read) EXCEPT !.heap[this].valueFloat = r.n,
                                          !.heap[this].valueInt = IntOf(r.n)], r.endptr)
        ELSE Ret(SetError(Touch(s, r.read), JSON_ERROR_OBJECT_MISMATCH), 0)
      Skipped(s) == IF s.ret = 0 THEN Ret(s, 0) ELSE Converted(s, Strtod(s, s.ret))
  IN Skipped(SkipWhiteSpace(d, json))

\* while (*ptr != '\"' && *ptr && ++len) { if (*ptr++ == '\\') ptr++; }
RECURSIVE StringScan(_, _)
StringScan(d, ptr) ==
  LET c == Byte(d, ptr)
      d1 == Touch(d, ptr)
  IN IF c = "\"" \/ c = NUL \/ d1.fault THEN Ret(d1, ptr)
     ELSE StringScan(d1, IF c = "\\" THEN Add(ptr, 2) ELSE Inc(ptr))

JsonStringParseDeep(d, this, json) ==
  LET Scanned(s, ptr) ==
        IF ptr = 0 \/ Byte(s, ptr) = NUL \/ s.fault
        THEN Ret(SetError(s, JSON_ERROR_PARSING_STRING), 0)
        ELSE Ret([s EXCEPT !.charBuffer[ptr] = NUL,
                           !.heap[this].start = json,
                           !.heap[this].end = ptr], Inc(ptr))
      At(s) == Scanned(s, s.ret)
  IN At(StringScan(d, json))

RECURSIVE JsonNodeParseDeep(_, _, _)
RECURSIVE ParseDeep(_, _, _)
RECURSIVE JsonElementParseDeep(_, _, _)
RECURSIVE ParseElement(_, _, _)
RECURSIVE ObjectRest(_, _, _)
RECURSIVE JsonObjectParseDeep(_, _, _)
RECURSIVE ArrayRest(_, _, _)
RECURSIVE JsonArrayParseDeep(_, _, _)

\* JsonNode::ParseDeep: a run of values appended to this
JsonNodeParseDeep(d, this, json) ==
  IF json = 0 THEN Ret(d, json)
  ELSE IF Byte(d, json) = NUL THEN Ret(Touch(d, json), json)
  ELSE LET Parsed(s, node) ==
             IF s.ret = 0
             THEN Ret(SetError(
                        DeleteNode([s EXCEPT !.pools[s.heap[node].memPool] = SetTracked(@)],
                                   node),
                        JSON_ERROR_PARSING), 0)
             ELSE JsonNodeParseDeep(InsertEndChild(s, this, node), this, s.ret)
           Identified(i) ==
             IF i.ret = 0 \/ i.node = NULL THEN i
             ELSE Parsed(SkipWhiteSpaceAt(ParseDeep(i, i.node, i.ret)), i.node)
       IN Identified(Identify(Touch(d, json), json))

JsonElementParseDeep(d, this, json) ==
  IF Byte(d, json) # "\""
  THEN Ret(SetError(Touch(d, json), JSON_ERROR_PARSING_ELEMENT), 0)
  ELSE LET Value(v) ==
             IF v.ret = 0 THEN Ret(SetError(v, JSON_ERROR_PARSING_ELEMENT), 0) ELSE v
           Key(k) ==
             IF k.ret = 0 \/ Byte(k, k.ret) # ":"
             THEN Ret(SetError(k, JSON_ERROR_PARSING_ELEMENT), 0)
             ELSE Value(SkipWhiteSpaceAt(JsonNodeParseDeep(k, this, Inc(k.ret))))
       IN Key(SkipWhiteSpaceAt(JsonNodeParseDeep(Touch(d, json), this, json)))

ParseElement(d, this, json) ==
  LET Parsed(s, node) ==
        IF s.ret = 0
        THEN Ret(SetError(
                   DeleteNode([s EXCEPT !.pools[s.heap[node].memPool] = SetTracked(@)], node),
                   JSON_ERROR_PARSING_ELEMENT), 0)
        ELSE Ret(InsertEndChild(s, this, node), s.ret)
      Created(c) == Parsed(SkipWhiteSpaceAt(JsonElementParseDeep(c, c.node, json)), c.node)
  IN Created(CreatElement(d))

\* JsonObject::ParseDeep from its while loop on: json is what ParseElement
\* returned, read without a null check
ObjectRest(d, this, json) ==
  LET Element(e) ==
        IF e.ret = 0
        THEN Ret(SetError(e, JSON_ERROR_OBJECT_MISMATCH), 0)
        ELSE ObjectRest(e, this, e.ret)
  IN IF Byte(d, json) = "," THEN Element(ParseElement(Touch(d, json), this, Inc(json)))
     ELSE IF Byte(d, json) = "}" THEN Ret(Touch(d, json), Inc(json))
     ELSE Ret(SetError(Touch(d, json), JSON_ERROR_OBJECT_MISMATCH), 0)

JsonObjectParseDeep(d, this, json) ==
  LET Element(e) == ObjectRest(e, this, e.ret)
      Skipped(s) ==
        IF s.ret = 0 \/ Byte(s, s.ret) = NUL
        THEN Ret(SetError(s, JSON_ERROR_OBJECT_MISMATCH), 0)
        ELSE IF Byte(s, s.ret) = "}" THEN Ret(s, Inc(s.ret))
        ELSE Element(ParseElement(s, this, s.ret))
  IN Skipped(SkipWhiteSpace(d, json))

\* JsonArray::ParseDeep from its while loop on
ArrayRest(d, this, json) ==
  LET Value(v) ==
        IF v.ret = 0 \/ Byte(v, v.ret) = NUL
        THEN Ret(SetError(v, JSON_ERROR_ARRAY_MISMATCH), 0)
        ELSE ArrayRest(v, this, v.ret)
  IN IF Byte(d, json) = ","
     THEN Value(SkipWhiteSpaceAt(JsonNodeParseDeep(d, this, Inc(json))))
     ELSE IF Byte(d, json) = "]" THEN Ret(d, Inc(json))
     ELSE Ret(SetError(d, JSON_ERROR_ARRAY_MISMATCH), 0)

JsonArrayParseDeep(d, this, json) ==
  LET Value(v) == IF v.ret = 0 THEN Ret(v, 0) ELSE ArrayRest(v, this, v.ret)
      Skipped(s) ==
        IF s.ret = 0 \/ Byte(s, s.ret) = NUL
        THEN Ret(SetError(s, JSON_ERROR_ARRAY_MISMATCH), 0)
        ELSE IF Byte(s, s.ret) = "]" THEN Ret(s, Inc(s.ret))
        ELSE Value(SkipWhiteSpaceAt(JsonNodeParseDeep(s, this, s.ret)))
  IN Skipped(SkipWhiteSpace(d, json))

\* the virtual call node->ParseDeep(json)
ParseDeep(d, node, json) ==
  CASE d.heap[node].kind = "Reserved" -> JsonReservedParseDeep(d, node, json)
    [] d.heap[node].kind = "Number" -> JsonNumberParseDeep(d, node, json)
    [] d.heap[node].kind = "String" -> JsonStringParseDeep(d, node, json)
    [] d.heap[node].kind = "Element" -> JsonElementParseDeep(d, node, json)
    [] d.heap[node].kind = "Object" -> JsonObjectParseDeep(d, node, json)
    [] d.heap[node].kind = "Array" -> JsonArrayParseDeep(d, node, json)
    [] d.heap[node].kind = "Document" -> JsonNodeParseDeep(d, node, json)

\* JsonDocument::Parse(json, nBytes): json is the caller's text (its
\* terminating NUL left out), len is NPOS for the default argument, and
\* foreign is what the memory outside the buffer holds
NPOS == 0 - 1

Parse(d, json, len, foreign) ==
  LET n == IF len = NPOS THEN Len(json) ELSE len
      Copied(d2) ==
        IF \A i \in 1..Len(json) : json[i] \in WhiteSpace
        THEN SetError(d2, JSON_ERROR_EMPTY_DOCUMENT)
        ELSE JsonNodeParseDeep(d2, DOC, 1)
      Clean(d1) ==
        IF json = <<>> THEN SetError(d1, JSON_ERROR_EMPTY_DOCUMENT)
        ELSE Copied([d1 EXCEPT !.charBuffer = SubSeq(json, 1, n) \o <<NUL>> \o foreign.tail,
                               !.size = n + 1,
                               !.nullByte = foreign.nullByte,
                               !.tail = foreign.tail])
  IN Clean(InitDocument(DeleteChildren(d, DOC)))

----------------------------------------------------------------------------
(* Accessors *)

\* the C string at p
RECURSIVE CStr(_, _)
CStr(d, p) ==
  IF p < 1 \/ p > Len(d.charBuffer) THEN <<>>
  ELSE IF d.charBuffer[p] = NUL THEN <<>>
  ELSE <<d.charBuffer[p]>> \o CStr(d, p + 1)

\* StrPair::GetStr through JsonString::GetStr
GetStr(d, node) ==
  LET start == d.heap[node].start
      end == d.heap[node].end
  IN IF start = 0 \/ end = 0 \/ start = end THEN <<>> ELSE CStr(d, start)

\* the child list as FirstChild() and NextSibling() walk it
RECURSIVE Siblings(_, _)
Siblings(d, node) ==
  IF node = NULL THEN <<>> ELSE <<node>> \o Siblings(d, d.heap[node].next)

Children(d, node) == Siblings(d, d.heap[node].firstChild)

\* what the accessors show of the tree below node: every node's class, its
\* payload and its children in order
RECURSIVE Tree(_, _)
Tree(d, node) ==
  LET n == d.heap[node]
      kids == Children(d, node)
  IN [kind |-> n.kind,
      type |-> n.type,
      value |-> n.valueFloat,
      str |-> IF n.kind = "String" THEN GetStr(d, node) ELSE <<>>,
      children |-> [i \in 1..Len(kids) |-> Tree(d, kids[i])]]

\* the tree without its numbers and without the text of the strings that
\* are not keys: class, children, key strings, null/true/false tags
RECURSIVE ShapeOf(_, _)
ShapeOf(t, isKey) ==
  [kind |-> t.kind,
   type |-> t.type,
   key |-> IF isKey THEN t.str ELSE <<>>,
   children |-> [i \in 1..Len(t.children) |->
                   ShapeOf(t.children[i], t.kind = "Element" /\ i = 1
                                          /\ t.children[i].kind = "String")]]

Shape(d) == ShapeOf(Tree(d, DOC), FALSE)

----------------------------------------------------------------------------
(* JsonVisitor and JsonPrinter.  A visitor is a record:                    *)
(*   class  "JsonPrinter", or "Probe": a JsonVisitor subclass of the       *)
(*          caller that logs every callback in trace and answers false to  *)
(*          the callbacks listed in stops                                  *)
(*   out, depth   JsonPrinter::_out, JsonPrinter::_depth                   *)
(*   ret    the value the last callback or Accept returned                 *)

JsonPrinter ==
  [class |-> "JsonPrinter", out |-> <<>>, depth |-> 0,
   stops |-> {}, trace |-> <<>>, ret |-> TRUE]

Probe(stops) ==
  [class |-> "Probe", out |-> <<>>, depth |-> 0,
   stops |-> stops, trace |-> <<>>, ret |-> TRUE]

Log(v, call, node) ==
  [v EXCEPT !.ret = <<call, node>> \notin v.stops,
            !.trace = Append(@, [call |-> call, node |-> node,
                                 ret |-> <<call, node>> \notin v.stops])]

RECURSIVE Spaces(_)
Spaces(n) == IF n <= 0 THEN <<>> ELSE <<" ", " ", " ", " ">> \o Spaces(n - 1)

PrintSpace(v, depth) == [v EXCEPT !.out = @ \o Spaces(depth)]

PrintPrevSymbol(d, v, node) ==
  LET parent == d.heap[node].parent
      between == parent # NULL /\ d.heap[node].prev # NULL
  IN IF between /\ d.heap[parent].kind = "Element"
     THEN [v EXCEPT !.out = @ \o <<" ", ":", " ">>]
     ELSE LET v1 == IF between THEN [v EXCEPT !.out = @ \o <<",", "\n">>] ELSE v
          IN IF d.heap[node].kind # "Element" THEN PrintSpace(v1, v1.depth) ELSE v1

RECURSIVE Decimal(_)
Decimal(n) == IF n < 10 THEN <<DigitChar(n)>> ELSE Decimal(n \div 10) \o <<DigitChar(n % 10)>>

\* ss << node.GetValue(): a float in the default format prints a whole
\* number below 10^6 as its digits; larger numbers need more digits than
\* the inputs of the model hold
FloatText(n) == (IF n.neg THEN <<"-">> ELSE <<>>) \o Decimal(n.mag)

\* bool VisitEnter(const JsonObject &), (const JsonArray &), (const JsonElement &)
VisitEnter(d, v, node) ==
  LET Open(v1) ==
        CASE d.heap[node].kind = "Object" ->
               [v1 EXCEPT !.out = @ \o <<"{", "\n">>, !.depth = @ + 1, !.ret = TRUE]
          [] d.heap[node].kind = "Array" ->
               [v1 EXCEPT !.out = @ \o <<"[", "\n">>, !.depth = @ + 1, !.ret = TRUE]
          [] d.heap[node].kind = "Element" -> [v1 EXCEPT !.ret = TRUE]
  IN IF v.class = "Probe" THEN Log(v, "VisitEnter", node)
     ELSE Open(PrintPrevSymbol(d, v, node))

\* bool VisitExit(...); JsonPrinter leaves JsonVisitor's for an Element
VisitExit(d, v, node) ==
  IF v.class = "Probe" THEN Log(v, "VisitExit", node)
  ELSE CASE d.heap[node].kind = "Object" ->
              LET v1 == PrintSpace([v EXCEPT !.out = @ \o <<"\n">>, !.depth = @ - 1],
                                   v.depth - 1)
              IN [v1 EXCEPT !.out = @ \o <<"}">>, !.ret = TRUE]
         [] d.heap[node].kind = "Array" ->
              LET v1 == PrintSpace([v EXCEPT !.out = @ \o <<"\n">>, !.depth = @ - 1],
                                   v.depth - 1)
              IN [v1 EXCEPT !.out = @ \o <<"]">>, !.ret = TRUE]
         [] d.heap[node].kind = "Element" -> [v EXCEPT !.ret = TRUE]

\* the switch of JsonPrinter::Visit(const JsonReserved &)
ReservedText(type) ==
  CASE type = RESERVED_NULL -> <<"n", "u", "l", "l">>
    [] type = RESERVED_TRUE -> <<"t", "r", "u", "e">>
    [] type = RESERVED_FALSE -> <<"f", "l", "a", "s", "e">>
    [] OTHER -> <<>>

\* bool Visit(const JsonNumber &), (const JsonString &), (const JsonReserved &)
Visit(d, v, node) ==
  LET Value(v1) ==
        CASE d.heap[node].kind = "Number" ->
               [v1 EXCEPT !.out = @ \o FloatText(d.heap[node].valueFloat), !.ret = TRUE]
          [] d.heap[node].kind = "String" ->
               [v1 EXCEPT !.out = @ \o <<"\"">> \o GetStr(d, node) \o <<"\"">>,
                          !.ret = TRUE]
          [] d.heap[node].kind = "Reserved" ->
               [v1 EXCEPT !.out = @ \o ReservedText(d.heap[node].type), !.ret = TRUE]
  IN IF v.class = "Probe" THEN Log(v, "Visit", node)
     ELSE Value(PrintPrevSymbol(d, v, node))

RECURSIVE Accept(_, _, _)
RECURSIVE AcceptEach(_, _, _)

\* for (node = FirstChild(); node; node = node->NextSibling())
\*     if (!node->Accept(visitor)) break;
\* from node on
AcceptEach(d, v, node) ==
  LET Accepted(a) == IF ~a.ret THEN a ELSE AcceptEach(d, a, d.heap[node].next)
  IN IF node = NULL THEN v ELSE Accepted(Accept(d, v, node))

\* VisitExit is skipped when VisitEnter answers false
JsonElementAcceptNoExit(d, v, this) ==
  LET Entered(e) ==
        IF e.ret THEN VisitExit(d, AcceptEach(d, e, d.heap[this].firstChild), this) ELSE e
  IN Entered(VisitEnter(d, v, this))

JsonElementAccept(d, v, this) ==
  LET Entered(e) ==
        VisitExit(d, IF e.ret THEN AcceptEach(d, e, d.heap[this].firstChild) ELSE e, this)
  IN Entered(VisitEnter(d, v, this))

JsonObjectAccept(d, v, this) ==
  LET Entered(e) ==
        VisitExit(d, IF e.ret THEN AcceptEach(d, e, d.heap[this].firstChild) ELSE e, this)
  IN Entered(VisitEnter(d, v, this))

JsonArrayAccept(d, v, this) ==
  LET Entered(e) ==
        VisitExit(d, IF e.ret THEN AcceptEach(d, e, d.heap[this].firstChild) ELSE e, this)
  IN Entered(VisitEnter(d, v, this))

JsonDocumentAccept(d, v, this) ==
  [AcceptEach(d, v, d.heap[this].firstChild) EXCEPT !.ret = TRUE]

\* the virtual call node->Accept(visitor)
Accept(d, v, node) ==
  CASE d.heap[node].kind \in {"Reserved", "Number", "String"} -> Visit(d, v, node)
    [] d.heap[node].kind = "Element" -> JsonElementAccept(d, v, node)
    [] d.heap[node].kind = "Object" -> JsonObjectAccept(d, v, node)
    [] d.heap[node].kind = "Array" -> JsonArrayAccept(d, v, node)
    [] d.heap[node].kind = "Document" -> JsonDocumentAccept(d, v, node)

----------------------------------------------------------------------------
(* The texts given to Parse *)

Range(q) == {q[i] : i \in 1..Len(q)}

RECURSIVE Concat(_)
Concat(ts) == IF ts = <<>> THEN <<>> ELSE Head(ts) \o Concat(Tail(ts))

tTrue == <<"t", "r", "u", "e">>
tFalse == <<"f", "a", "l", "s", "e">>
tNull == <<"n", "u", "l", "l">>
tTru == <<"t", "r", "u">>
tStr == <<"\"", "k", "\"">>
tOpenStr == <<"\"", "k">>
tEscStr == <<"\"", "k", "\\">>

Tokens ==
  {<<"{">>, <<"}">>, <<"[">>, <<"]">>, <<":">>, <<",">>, <<" ">>, <<"\"">>,
   <<"1">>, <<"-">>, <<"k">>, tStr, tOpenStr, tEscStr, tTrue, tFalse, tNull, tTru}

\* every text made of at most n tokens
RECURSIVE TokenTexts(_)
TokenTexts(n) ==
  IF n = 0 THEN {<<>>}
  ELSE LET shorter == TokenTexts(n - 1)
       IN shorter \cup {t \o k : t \in shorter, k \in Tokens}

\* the parts the longer texts are assembled from
Values ==
  {<<"1">>, tTrue, tFalse, tNull, tTru, tStr, <<"{", "}">>, <<"[", "]">>, <<"k">>, <<>>}
FewValues == {<<"1">>, tFalse, tTru, tStr, <<>>}
Keys == {tStr, <<"\"", "\"">>, tOpenStr, tStr \o <<" ">> \o tStr, <<"k">>, <<>>}
Separators == {<<",">>, <<" ">>, <<",", " ">>, <<" ", ",">>, <<>>}

Members == {Concat(<<<<"{">>, k, <<":">>, v, <<"}">>>>) : k \in Keys, v \in Values}
Pairs ==
  {Concat(<<<<"{">>, tStr, <<":">>, v, s, tStr, <<":">>, w, <<"}">>>>) :
     v \in FewValues, s \in Separators, w \in FewValues}
Lists == {Concat(<<<<"[">>, v, s, w, <<"]">>>>) : v \in FewValues, s \in Separators, w \in FewValues}
Runs == {Concat(<<v, s, w>>) : v \in Values, s \in {<<" ">>, <<",">>}, w \in FewValues}
Nested ==
  {Concat(<<<<"[", "[">>, v, <<"]", "]">>>>) : v \in Values}
  \cup {Concat(<<<<"{">>, tStr, <<":", "[">>, v, <<"]", "}">>>>) : v \in Values}
  \cup {Concat(<<<<"[", "{">>, tStr, <<":">>, v, <<"}", "]">>>>) : v \in Values}
  \cup {Concat(<<<<"{">>, tStr, <<":", "{">>, tStr, <<":">>, v, <<"}", "}">>>>) : v \in Values}

Prefixes(t) == {SubSeq(t, 1, n) : n \in 0..Len(t)}
Sample == Concat(<<<<"{">>, tStr, <<":", "[", "1", ",">>, tTrue, <<"]", ",">>, tStr, <<":">>, tNull, <<"}">>>>)

\* an Object whose first Element has no key
NoKey == <<"{", "k", "}">>

Inputs ==
  TokenTexts(MaxLen) \cup Members \cup Pairs \cup Lists \cup Runs \cup Nested
    \cup Prefixes(Sample) \cup {NoKey, <<"[", "1", ",", "1">>}

\* texts for sequences of Parse calls on one Document
SeqInputs ==
  {<<>>, <<" ">>, <<"1">>, <<"1">> \o tTru, <<"[">> \o tOpenStr, NoKey, tEscStr,
   Concat(<<<<"{">>, tStr, <<":", "1", "}">>>>), Concat(<<<<"[", "1", ",">>, tTrue, <<"]">>>>)}

\* texts whose trees a visitor walks
TreeInputs == Lists \cup Nested \cup Runs \cup {Sample}

\* the places of a text, counted in bytes before them, that lie outside its
\* string literals
RECURSIVE Gaps(_, _, _)
Gaps(t, i, inStr) ==
  IF i > Len(t) THEN (IF inStr THEN {} ELSE {Len(t)})
  ELSE (IF inStr THEN {} ELSE {i - 1})
       \cup (IF inStr /\ t[i] = "\\" THEN Gaps(t, i + 2, TRUE)
             ELSE Gaps(t, i + 1, IF t[i] = "\"" THEN ~inStr ELSE inStr))

Structural == {"{", "}", "[", "]", ":", ","}

\* the places next to a structural byte
SpacePlaces(t) ==
  {g \in Gaps(t, 1, FALSE) :
     \/ g >= 1 /\ t[g] \in Structural
     \/ g < Len(t) /\ t[g + 1] \in Structural}

InsertAt(t, g, c) == SubSeq(t, 1, g) \o <<c>> \o SubSeq(t, g + 1, Len(t))

\* what the memory outside the buffer may hold: the byte a read of address
\* 0 yields (FAULT: the read traps) and the bytes behind the buffer
NullBytes == {FAULT, NUL, ",", "}"}
TailBytes == {NUL, "\"", "k"}
Foreign0 == [nullByte |-> NUL, tail |-> [i \in 1..TailLen |-> NUL]]
Foreign == [nullByte : NullBytes, tail : [1..TailLen -> TailBytes]]

----------------------------------------------------------------------------
(* State *)

VARIABLES
  \* the JsonDocument: its nodes, pools, error slot and buffer
  heap, pools, errorID, errorStr1, errorStr2, charBuffer,
  \* "idle" after construction, "returned" after a call returned, "crashed"
  \* when an access faulted, "aborted" when a TJASSERT failed
  pc,
  \* the operation that ran last
  op,
  \* the argument of the last Parse, how it was made ("input", "printed",
  \* "spaced") and the number of Parse calls made
  text, how, calls,
  \* the errors passed to SetError during the last Parse, in order
  setErrors,
  \* whether the last Parse read a null cursor or outside the buffer, and
  \* what the memory it then saw held
  ub, foreign,
  \* status, shape and argument before the last Parse, and what ub was then
  before,
  \* the text of the printer, and the callbacks a Probe received with the
  \* callbacks it answered false to
  out, trace, stops,
  \* one MemPoolT on its own, the chunks handed out, the calls made, and
  \* the progress of a cycle that takes n chunks, frees them and takes n again
  pool, held, ops, cycle

docVars == <<heap, pools, errorID, errorStr1, errorStr2, charBuffer>>
callVars == <<pc, op, text, how, calls, setErrors, ub, foreign, before>>
visitVars == <<out, trace, stops>>
poolVars == <<pool, held, ops, cycle>>
vars == <<docVars, callVars, visitVars, poolVars>>

\* JsonDocument::JsonDocument
NewDocument ==
  [heap |-> (DOC :> JsonNode("Document", "none")),
   pools |-> [n \in PoolNames |-> MemPoolT(ItemSize(n))],
   errorID |-> JSON_NO_ERROR, errorStr1 |-> 0, errorStr2 |-> 0,
   charBuffer |-> <<>>, size |-> 0,
   nullByte |-> NUL, tail |-> <<>>, setErrors |-> <<>>,
   nullRead |-> FALSE, oob |-> FALSE, fault |-> FALSE, abort |-> FALSE,
   ret |-> 0, node |-> NULL]

\* the Document as the next call finds it
Doc ==
  [NewDocument EXCEPT !.heap = heap, !.pools = pools, !.errorID = errorID,
                      !.errorStr1 = errorStr1, !.errorStr2 = errorStr2,
                      !.charBuffer = charBuffer]

\* A call sees of the foreign memory only what it reads: when it reads
\* none, one content stands for all; when it reads only address 0, or only
\* behind the buffer, the other part is left as in Foreign0.  res[f] is the
\* outcome of the call when the foreign memory holds f.
ForeignFor(res) ==
  LET nulls == {[nullByte |-> b, tail |-> Foreign0.tail] : b \in NullBytes}
      tails == {[nullByte |-> Foreign0.nullByte, tail |-> x] : x \in [1..TailLen -> TailBytes]}
  IN IF ~res[Foreign0].nullRead /\ ~res[Foreign0].oob THEN {Foreign0}
     ELSE IF \A f \in nulls : ~res[f].oob THEN nulls
     ELSE IF \A f \in tails : ~res[f].nullRead THEN tails
     ELSE Foreign

\* the ways doc.Parse(t) can end
Outcomes(d, t) ==
  LET Each(res) == {res[f] : f \in ForeignFor(res)}
  IN Each([f \in Foreign |-> Parse(d, t, NPOS, f)])

PoolSizes == {512, 340}

DocInit ==
  /\ heap = NewDocument.heap
  /\ pools = NewDocument.pools
  /\ errorID = JSON_NO_ERROR
  /\ errorStr1 = 0
  /\ errorStr2 = 0
  /\ charBuffer = <<>>
  /\ pc = "idle"
  /\ op = "none"
  /\ text = <<>>
  /\ how = "input"
  /\ calls = 0
  /\ setErrors = <<>>
  /\ ub = [nullRead |-> FALSE, oob |-> FALSE]
  /\ foreign = Foreign0
  /\ before = [errorID |-> JSON_NO_ERROR, shape |-> Shape(NewDocument), text |-> <<>>,
               ub |-> [nullRead |-> FALSE, oob |-> FALSE]]
  /\ out = <<>>
  /\ trace = <<>>
  /\ stops = {}

PoolInit ==
  /\ held = {}
  /\ ops = 0
  /\ cycle = [phase |-> "off", n |-> 0, got |-> {}, blocks |-> 0]

Init ==
  /\ DocInit
  /\ PoolInit
  /\ pool = MemPoolT(SizeofJsonObject)

InitPool ==
  /\ DocInit
  /\ PoolInit
  /\ pool \in {MemPoolT(size) : size \in PoolSizes}

----------------------------------------------------------------------------
(* Operations on the Document *)

\* doc.Parse(t), t made the way h says
Call(t, h) ==
  \E r \in Outcomes(Doc, t) :
    /\ text' = t
    /\ how' = h
    /\ op' = "Parse"
    /\ calls' = calls + 1
    /\ before' = [errorID |-> errorID, shape |-> Shape(Doc), text |-> text, ub |-> ub]
    /\ ub' = [nullRead |-> r.nullRead, oob |-> r.oob]
    /\ foreign' = [nullByte |-> r.nullByte, tail |-> r.tail]
    /\ setErrors' = r.setErrors
    /\ IF r.fault \/ r.abort
       THEN /\ pc' = IF r.abort THEN "aborted" ELSE "crashed"
            /\ UNCHANGED docVars
       ELSE /\ pc' = "returned"
            /\ heap' = r.heap
            /\ pools' = r.pools
            /\ errorID' = r.errorID
            /\ errorStr1' = r.errorStr1
            /\ errorStr2' = r.errorStr2
            /\ charBuffer' = r.charBuffer
    /\ UNCHANGED <<visitVars, poolVars>>

\* the first Parse of a Document
ParseInput ==
  /\ pc = "idle"
  /\ \E t \in Inputs : Call(t, "input")

\* JsonPrinter printer; doc.Accept(&printer)
PrintDocument ==
  /\ pc = "returned"
  /\ op = "Parse"
  /\ how = "input"
  /\ out' = Accept(Doc, JsonPrinter, DOC).out
  /\ op' = "Print"
  /\ UNCHANGED <<docVars, pc, text, how, calls, setErrors, ub, foreign, before>>
  /\ UNCHANGED <<trace, stops, poolVars>>

\* doc.Parse(printer.GetString())
ParsePrinted ==
  /\ pc = "returned"
  /\ op = "Print"
  /\ Call(out, "printed")

\* Parse of the last text with one blank added next to a structural byte
ParseSpaced ==
  /\ pc = "returned"
  /\ op = "Parse"
  /\ how = "input"
  /\ \E g \in SpacePlaces(text) : Call(InsertAt(text, g, " "), "spaced")

\* a later Parse of the same Document
ParseAgain ==
  /\ pc = "returned"
  /\ calls < MaxParses
  /\ \E t \in SeqInputs : Call(t, "again")

ParseFirst ==
  /\ pc = "idle"
  /\ \E t \in SeqInputs : Call(t, "input")

\* the Document goes out of scope
Destroy ==
  /\ pc \in {"idle", "returned"}
  /\ \E r \in {JsonDocumentDestructor(Doc)} :
       /\ heap' = r.heap
       /\ pools' = r.pools
       /\ charBuffer' = r.charBuffer
       /\ pc' = IF r.abort THEN "aborted" ELSE "destroyed"
  /\ op' = "Destroy"
  /\ UNCHANGED <<errorID, errorStr1, errorStr2>>
  /\ UNCHANGED <<text, how, calls, setErrors, ub, foreign, before>>
  /\ UNCHANGED <<visitVars, poolVars>>

\* the nodes above node, node included
RECURSIVE Ancestors(_, _)
Ancestors(h, node) ==
  IF node = NULL THEN {} ELSE {node} \cup Ancestors(h, h[node].parent)

\* the classes whose nodes the tree operations are tried on
TreeKinds == {<<"Array", "arrayPool">>, <<"Number", "numberPool">>}

\* one call of a tree operation has left the Document as r.  Once a node
\* that had a parent, or a node from above its new parent, was linked, the
\* nodes form no tree and what later calls do is not followed.
TreeCall(name, r, tangled) ==
  /\ heap' = r.heap
  /\ pools' = r.pools
  /\ op' = name
  /\ calls' = calls + 1
  /\ pc' = IF r.abort THEN "aborted" ELSE IF tangled THEN "tangled" ELSE "returned"
  /\ UNCHANGED <<errorID, errorStr1, errorStr2, charBuffer>>
  /\ UNCHANGED <<text, how, setErrors, ub, foreign, before>>
  /\ UNCHANGED <<visitVars, poolVars>>

\* a node comes out of its pool, as in Identify and CreatElement
TreeCreate ==
  /\ pc \in {"idle", "returned"}
  /\ calls < MaxTreeOps
  /\ Cardinality(DOMAIN heap) <= MaxNodes
  /\ \E k \in TreeKinds : TreeCall("Create", Create(Doc, k[1], k[2]), FALSE)

TreeInsertEndChild ==
  /\ pc = "returned"
  /\ calls < MaxTreeOps
  /\ \E parent \in DOMAIN heap : \E node \in (DOMAIN heap) \ {DOC} :
       TreeCall("InsertEndChild", InsertEndChild(Doc, parent, node),
                heap[node].parent # NULL \/ node \in Ancestors(heap, parent))

TreeUnlink ==
  /\ pc = "returned"
  /\ calls < MaxTreeOps
  /\ \E child \in (DOMAIN heap) \ {DOC} :
       /\ heap[child].parent # NULL
       /\ TreeCall("Unlink", Unlink(Doc, heap[child].parent, child), FALSE)

TreeDeleteChildren ==
  /\ pc = "returned"
  /\ calls < MaxTreeOps
  /\ \E node \in DOMAIN heap :
       TreeCall("DeleteChildren", DeleteChildren(Doc, node), FALSE)

ParseTree ==
  /\ pc = "idle"
  /\ \E t \in TreeInputs : Call(t, "input")

\* the nodes below node, node included
RECURSIVE Descendants(_, _)
Descendants(d, node) ==
  {node} \cup UNION {Descendants(d, c) : c \in Range(Children(d, node))}

\* the callbacks a walk of the tree can make
Callbacks(d) ==
  UNION {IF d.heap[n].kind \in {"Object", "Array", "Element"}
         THEN {<<"VisitEnter", n>>, <<"VisitExit", n>>}
         ELSE {<<"Visit", n>>} : n \in Descendants(d, DOC) \ {DOC}}

\* the subsets of S of at most k members
RECURSIVE UpTo(_, _)
UpTo(S, k) ==
  IF k = 0 THEN {{}}
  ELSE LET fewer == UpTo(S, k - 1) IN fewer \cup {s \cup {x} : s \in fewer, x \in S}

\* Probe probe; doc.Accept(&probe), the Probe answering false to stop
Walk ==
  /\ pc = "returned"
  /\ op = "Parse"
  /\ \E stop \in UpTo(Callbacks(Doc), MaxStops) :
       /\ trace' = Accept(Doc, Probe(stop), DOC).trace
       /\ stops' = stop
  /\ op' = "Accept"
  /\ UNCHANGED <<docVars, pc, text, how, calls, setErrors, ub, foreign, before>>
  /\ UNCHANGED <<out, poolVars>>

----------------------------------------------------------------------------
(* Operations on one MemPoolT *)

\* pool.Alloc()
PoolAlloc ==
  /\ cycle.phase = "off"
  /\ ops < MaxPoolOps
  /\ LET a == Alloc(pool)
     IN /\ pool' = a.pool
        /\ held' = held \cup {a.result}
  /\ ops' = ops + 1
  /\ UNCHANGED <<cycle, docVars, callVars, visitVars>>

\* pool.Free(mem) of a chunk handed out before
PoolFree ==
  /\ cycle.phase = "off"
  /\ ops < MaxPoolOps
  /\ \E mem \in held :
       /\ pool' = Free(pool, mem)
       /\ held' = held \ {mem}
  /\ ops' = ops + 1
  /\ UNCHANGED <<cycle, docVars, callVars, visitVars>>

\* the caller sets out to take n chunks, free them, and take n again
CycleStart ==
  /\ cycle.phase = "off"
  /\ \E n \in 1..MaxCycle : cycle' = [phase |-> "alloc", n |-> n, got |-> {}, blocks |-> 0]
  /\ UNCHANGED <<pool, held, ops, docVars, callVars, visitVars>>

CycleAlloc ==
  /\ cycle.phase = "alloc"
  /\ LET a == Alloc(pool)
         got == cycle.got \cup {a.result}
     IN /\ pool' = a.pool
        /\ held' = held \cup {a.result}
        /\ cycle' = IF Cardinality(got) = cycle.n
                    THEN [cycle EXCEPT !.phase = "free", !.got = got,
                                       !.blocks = Blocks(a.pool)]
                    ELSE [cycle EXCEPT !.got = got]
  /\ UNCHANGED <<ops, docVars, callVars, visitVars>>

CycleFree ==
  /\ cycle.phase = "free"
  /\ \E mem \in cycle.got :
       /\ pool' = Free(pool, mem)
       /\ held' = held \ {mem}
       /\ cycle' = IF cycle.got = {mem}
                   THEN [cycle EXCEPT !.phase = "realloc", !.got = {}]
                   ELSE [cycle EXCEPT !.got = @ \ {mem}]
  /\ UNCHANGED <<ops, docVars, callVars, visitVars>>

CycleRealloc ==
  /\ cycle.phase = "realloc"
  /\ LET a == Alloc(pool)
         got == cycle.got \cup {a.result}
     IN /\ pool' = a.pool
        /\ held' = held \cup {a.result}
        /\ cycle' = IF Cardinality(got) = cycle.n
                    THEN [cycle EXCEPT !.phase = "done", !.got = got]
                    ELSE [cycle EXCEPT !.got = got]
  /\ UNCHANGED <<ops, docVars, callVars, visitVars>>

Next == ParseInput \/ PrintDocument \/ ParsePrinted \/ ParseSpaced

Spec == Init /\ [][Next]_vars

NextSeq == ParseFirst \/ ParseAgain \/ Destroy

SpecSeq == Init /\ [][NextSeq]_vars

NextVisit == ParseTree \/ Walk

SpecVisit == Init /\ [][NextVisit]_vars

NextTree == TreeCreate \/ TreeInsertEndChild \/ TreeUnlink \/ TreeDeleteChildren

SpecTree == Init /\ [][NextTree]_vars

NextPool == PoolAlloc \/ PoolFree \/ CycleStart \/ CycleAlloc \/ CycleFree \/ CycleRealloc

SpecPool == InitPool /\ [][NextPool]_vars

----------------------------------------------------------------------------
(* Properties of Parse and of the printer *)


\* the last operation was a Parse that returned to its caller
Returned == pc = "returned" /\ op = "Parse"

\* the last Parse stayed inside its buffer and read no null cursor
Defined == ~ub.nullRead /\ ~ub.oob

\* the Parse before the last one returned JSON_NO_ERROR and was Defined
CleanBefore ==
  before.errorID = JSON_NO_ERROR /\ ~before.ub.nullRead /\ ~before.ub.oob

NoChildren == heap[DOC].firstChild = NULL /\ heap[DOC].lastChild = NULL

\* JsonObject::ParseElement gave up on an Element during the last Parse: it
\* alone passes JSON_ERROR_PARSING_ELEMENT to SetError after a failed
\* JsonElement::ParseDeep
ElementFailed == op = "Parse" /\ JSON_ERROR_PARSING_ELEMENT \in Range(setErrors)

\* C1: whenever Parse returns a status other than JSON_NO_ERROR, the
\* Document has no children (FirstChild() and LastChild() are null).
\* Stated for the first Parse of a Document and for runs that are Defined.
ErrorLeavesNoChildren ==
  Returned /\ how = "input" /\ Defined /\ errorID # JSON_NO_ERROR => NoChildren

\* 1tru: the Number 1 stays in the Document when tru fails
ErrorWithChildren ==
  /\ Returned /\ how = "input" /\ Defined
  /\ text = <<"1">> \o tTru
  /\ errorID = JSON_ERROR_PARSING_RESERVED
  /\ heap[DOC].firstChild # NULL
  /\ heap[heap[DOC].firstChild].kind = "Number"

\* C2: whenever Parse returns an error status, CurrentAllocs of each of the
\* six pools is zero.
ErrorLeavesNoAllocs ==
  Returned /\ how = "input" /\ Defined /\ errorID # JSON_NO_ERROR
    => \A n \in PoolNames : CurrentAllocs(pools[n]) = 0

\* 1tru: the Number 1 is still allocated when Parse has returned the error
ErrorWithAllocs ==
  /\ Returned /\ how = "input" /\ Defined
  /\ text = <<"1">> \o tTru
  /\ errorID # JSON_NO_ERROR
  /\ CurrentAllocs(pools["numberPool"]) = 1

\* C3: when an Element of an Object fails to parse, Parse reads through no
\* null cursor, returns, and returns a status other than JSON_NO_ERROR.
ElementFailureReported ==
  how = "input" /\ ElementFailed
    => pc = "returned" /\ ~ub.nullRead /\ errorID # JSON_NO_ERROR

\* {k}: ParseElement returns no cursor and JsonObject::ParseDeep reads *json
NullCursorRead ==
  /\ op = "Parse" /\ how = "input"
  /\ text = NoKey
  /\ ElementFailed
  /\ ub.nullRead
  /\ pc = "crashed"

\* C4: parsing what JsonPrinter printed of a successfully parsed tree
\* succeeds and gives a tree of the same shape, key strings and
\* null/true/false tags.
\* Stated for trees that have a node.
PrintParseRoundTrip ==
  how = "printed" /\ CleanBefore /\ before.shape.children # <<>>
    => pc = "returned" /\ errorID = JSON_NO_ERROR /\ Shape(Doc) = before.shape

\* false is printed as flase, which does not parse
FalsePrintedWrong ==
  /\ Returned /\ how = "printed" /\ CleanBefore
  /\ before.text = tFalse
  /\ text = <<"f", "l", "a", "s", "e">>
  /\ errorID = JSON_ERROR_PARSING_RESERVED

\* C5: a blank inserted next to a structural byte of an input that parses
\* changes neither the status nor the shape of the tree.
WhitespaceInsensitive ==
  how = "spaced" /\ CleanBefore
    => pc = "returned" /\ errorID = before.errorID /\ Shape(Doc) = before.shape

\* {"k":1,"k":1} parses; with a blank behind its ',' it does not
BlankAfterCommaFails ==
  /\ Returned /\ how = "spaced" /\ CleanBefore
  /\ before.text = Concat(<<<<"{">>, tStr, <<":", "1", ",">>, tStr, <<":", "1", "}">>>>)
  /\ text = Concat(<<<<"{">>, tStr, <<":", "1", ",", " ">>, tStr, <<":", "1", "}">>>>)
  /\ errorID = JSON_ERROR_PARSING_ELEMENT

\* an object member with a key and a ':' and no value
MissingValue ==
  {Concat(<<<<"{">>, tStr, <<":", "}">>>>),
   Concat(<<<<"{">>, tStr, <<":", ",">>, tStr, <<":", "1", "}">>>>)}

\* C6: a member with a key and a ':' but no value makes Parse return
\* JSON_ERROR_PARSING_ELEMENT and leaves the Document without children.
MissingValueIsElementError ==
  op = "Parse" /\ how = "input" /\ text \in MissingValue
    => pc = "returned" /\ errorID = JSON_ERROR_PARSING_ELEMENT /\ NoChildren

\* {"k":}: Parse returns JSON_NO_ERROR and the Object stays
MissingValueAccepted ==
  /\ Returned /\ how = "input"
  /\ text = Concat(<<<<"{">>, tStr, <<":", "}">>>>)
  /\ errorID = JSON_NO_ERROR
  /\ ~NoChildren

\* C7: the status Parse returns is the first error passed to SetError
\* during the call, JSON_NO_ERROR when there was none, and the context
\* strings are those of that call.
FirstErrorWins ==
  Returned
    => /\ errorID = IF setErrors = <<>> THEN JSON_NO_ERROR ELSE setErrors[1]
       /\ errorStr1 = 0
       /\ errorStr2 = 0

\* an unterminated string in an array: JSON_ERROR_PARSING_STRING is
\* recorded first and the callers' errors follow during unwinding
LaterErrorIgnored ==
  /\ Returned
  /\ text = <<"[">> \o tOpenStr
  /\ Len(setErrors) >= 2
  /\ setErrors[1] = JSON_ERROR_PARSING_STRING
  /\ \E i \in 2..Len(setErrors) : setErrors[i] # JSON_ERROR_PARSING_STRING
  /\ errorID = JSON_ERROR_PARSING_STRING

\* what a call of Parse leaves that its caller can observe
Outcome(d) ==
  [errorID |-> d.errorID, errorStr1 |-> d.errorStr1, errorStr2 |-> d.errorStr2,
   tree |-> Tree(d, DOC), charBuffer |-> d.charBuffer,
   live |-> [n \in PoolNames |-> CurrentAllocs(d.pools[n])]]

\* C8: after any sequence of Parse calls on one Document, status, tree,
\* buffer and live allocations are those a fresh Document has after Parse
\* of the last text alone.
EachParseStartsClean ==
  Returned => Outcome(Doc) = Outcome(Parse(NewDocument, text, NPOS, foreign))

\* a Parse that succeeds after one that failed and left nodes behind
SuccessAfterFailure ==
  /\ Returned
  /\ calls >= 2
  /\ before.errorID # JSON_NO_ERROR
  /\ before.shape.children # <<>>
  /\ errorID = JSON_NO_ERROR
  /\ ~NoChildren

----------------------------------------------------------------------------
(* Properties of MemPoolT *)

\* C9: taking n chunks, freeing them and taking n again leaves the number
\* of blocks as it was after the first n; the number of blocks never
\* decreases, and it grows only when the freelist is empty.
PoolReuse ==
  /\ [](cycle.phase \in {"realloc", "done"} => Blocks(pool) = cycle.blocks)
  /\ [][Blocks(pool)' >= Blocks(pool)]_vars
  /\ [][Blocks(pool)' > Blocks(pool) => pool.root = NULL]_vars

\* a finished cycle of more chunks than one block holds
CycleAcrossBlocks ==
  /\ cycle.phase = "done"
  /\ cycle.n > COUNT(pool.SIZE)
  /\ Blocks(pool) = cycle.blocks
  /\ Blocks(pool) >= 2

----------------------------------------------------------------------------
(* Properties of the traversal *)

Containers ==
  {n \in Descendants(Doc, DOC) : heap[n].kind \in {"Object", "Array", "Element"}}

\* the places in trace of the callbacks made for node n
Of(n) == {i \in 1..Len(trace) : trace[i].node = n}
At(n, call) == {i \in Of(n) : trace[i].call = call}

Min(S) == CHOOSE i \in S : \A j \in S : i <= j
Max(S) == CHOOSE i \in S : \A j \in S : i >= j

\* what n->Accept(visitor) returned: the answer to its last callback
Accepted(n) == trace[Max(Of(n))].ret

\* the loop over the children of p ran
Entered(p) ==
  p = DOC \/ (At(p, "VisitEnter") # {} /\ trace[Min(At(p, "VisitEnter"))].ret)

ExitAfterEnter(n) ==
  /\ Cardinality(At(n, "VisitEnter")) <= 1
  /\ Cardinality(At(n, "VisitExit")) = Cardinality(At(n, "VisitEnter"))
  /\ \A i \in At(n, "VisitEnter") : \A j \in At(n, "VisitExit") : i < j

ChildrenInOrder(p) ==
  LET kids == Children(Doc, p)
      seen == {i \in 1..Len(kids) : Of(kids[i]) # {}}
  IN /\ \A i \in 1..Len(kids) :
          i \in seen <=> /\ Entered(p)
                         /\ \A j \in 1..(i - 1) : j \in seen /\ Accepted(kids[j])
     /\ \A i \in seen : \A j \in seen : i < j => Max(Of(kids[i])) < Min(Of(kids[j]))
     /\ p # DOC =>
          \A i \in seen : /\ Min(At(p, "VisitEnter")) < Min(Of(kids[i]))
                          /\ Max(Of(kids[i])) < Max(At(p, "VisitExit"))

\* C10: every Object, Array and Element that Accept is called on gets one
\* VisitEnter and after it one VisitExit, also when VisitEnter or a child's
\* Accept answers false; the children are visited in insertion order, up to
\* and including the first whose Accept answers false.
VisitorOrder ==
  op = "Accept"
    => /\ \A n \in Containers : ExitAfterEnter(n)
       /\ \A p \in Containers \cup {DOC} : ChildrenInOrder(p)

\* a walk in which an Element's VisitEnter answered false and a child's
\* Accept answered false before its last sibling
WalkCutShort ==
  /\ op = "Accept"
  /\ \E e \in Containers :
       /\ heap[e].kind = "Element"
       /\ <<"VisitEnter", e>> \in stops
       /\ At(e, "VisitEnter") # {}
       /\ At(e, "VisitExit") # {}
  /\ \E p \in Containers :
       LET kids == Children(Doc, p)
       IN /\ At(p, "VisitExit") # {}
          /\ \E i \in 1..Len(kids) : \E j \in 1..Len(kids) :
               /\ i < j
               /\ Of(kids[i]) # {}
               /\ ~Accepted(kids[i])
               /\ Of(kids[j]) = {}

----------------------------------------------------------------------------
(* Properties of Element, Array and String parsing *)

\* every Element of the tree t has two children, the first a String
RECURSIVE ElementsHaveKeyAndValue(_)
ElementsHaveKeyAndValue(t) ==
  /\ t.kind = "Element" => Len(t.children) = 2 /\ t.children[1].kind = "String"
  /\ \A i \in 1..Len(t.children) : ElementsHaveKeyAndValue(t.children[i])

\* the number of children of the first Element of the first top-level Object
FirstElementSize ==
  Len(Tree(Doc, DOC).children[1].children[1].children)

\* C11: in every tree of a successful Parse each Element has exactly two
\* children, a String key and then one value.
ElementHasTwoChildren ==
  Returned /\ how = "input" /\ Defined /\ errorID = JSON_NO_ERROR
    => ElementsHaveKeyAndValue(Tree(Doc, DOC))

\* {"k" "k":1}: both strings before the ':' become children of the Element
ElementWithThreeChildren ==
  /\ Returned /\ how = "input" /\ Defined
  /\ text = Concat(<<<<"{">>, tStr, <<" ">>, tStr, <<":", "1", "}">>>>)
  /\ errorID = JSON_NO_ERROR
  /\ FirstElementSize = 3

\* array texts whose values are separated by a blank only, whose ',' has
\* no value behind it, or that have no closing ']'
MalformedArrays ==
  {<<"[", "1", " ", "1", "]">>, <<"[", "1", ",", "]">>, <<"[", ",", "]">>,
   <<"[", "1">>, <<"[", "1", ",", "1">>}

\* C12: an array whose values are separated by whitespace only, whose ','
\* is not followed by a value, or that lacks its ']' makes Parse return an
\* error status.
MalformedArrayFails ==
  op = "Parse" /\ how = "input" /\ text \in MalformedArrays
    => pc = "returned" /\ errorID # JSON_NO_ERROR

\* [1 1] and [1,] are accepted as Arrays
MalformedArrayAccepted ==
  /\ Returned /\ how = "input" /\ Defined
  /\ text \in {<<"[", "1", " ", "1", "]">>, <<"[", "1", ",", "]">>}
  /\ errorID = JSON_NO_ERROR
  /\ heap[heap[DOC].firstChild].kind = "Array"

\* texts with a string that has no closing quote
UnterminatedStrings ==
  {tOpenStr, tEscStr, <<"\"">>, <<"[">> \o tOpenStr, <<"[">> \o tEscStr}

\* the places of the text whose byte in the Document's buffer differs
Modified ==
  {i \in 1..Len(text) : charBuffer[i] # text[i]}

\* C14: string scanning stays inside the buffer: an unterminated string,
\* its last byte a backslash included, is scanned up to the terminating NUL
\* and no further and fails with JSON_ERROR_PARSING_STRING; a successful
\* Parse changes no byte of the text but closing quotes, which become NUL.
StringScanStaysInBuffer ==
  /\ op = "Parse" /\ how = "input" /\ text \in UnterminatedStrings
       => ~ub.oob /\ pc = "returned" /\ errorID = JSON_ERROR_PARSING_STRING
  /\ Returned /\ how = "input" /\ Defined /\ errorID = JSON_NO_ERROR
       => \A i \in Modified : text[i] = "\"" /\ charBuffer[i] = NUL

\* "k\ : the byte behind the backslash, the terminating NUL, is skipped and
\* the scan goes on in the memory behind the buffer
ScanPastTerminator ==
  /\ op = "Parse" /\ how = "input" /\ text = tEscStr
  /\ ub.oob

\* C15: every node a pool hands out during Parse is linked by
\* InsertEndChild or marked tracked before it is deleted, so the untracked
\* counter of every pool is 0 whenever Parse returns, and after any
\* sequence of Parse calls the destructor of a Document whose last Parse
\* reported no error finds CurrentAllocs() == Untracked() in every pool.
UntrackedBalanced ==
  /\ Returned => \A n \in PoolNames : Untracked(pools[n]) = 0
  /\ op = "Destroy" /\ errorID = JSON_NO_ERROR
       => /\ pc = "destroyed"
          /\ \A n \in PoolNames : CurrentAllocs(pools[n]) = Untracked(pools[n])

\* a Document destroyed after a failed and then a successful Parse
DestroyedAfterTwoParses ==
  /\ op = "Destroy" /\ pc = "destroyed" /\ calls = 2
  /\ before.errorID # JSON_NO_ERROR /\ errorID = JSON_NO_ERROR
  /\ text = Concat(<<<<"{">>, tStr, <<":", "1", "}">>>>)
  /\ pools["elementPool"].nAllocs > 0

----------------------------------------------------------------------------
(* Properties of the child lists *)

Reverse(s) == [i \in 1..Len(s) |-> s[Len(s) + 1 - i]]

\* the nodes met from node on by following the link named field, for at
\* most fuel steps
RECURSIVE Follow(_, _, _)
Follow(node, field, fuel) ==
  IF node = NULL \/ node \notin DOMAIN heap \/ fuel = 0 THEN <<>>
  ELSE <<node>> \o Follow(heap[node][field], field, fuel - 1)

\* the child list of p read from the first child on, and from the last
Forward(p) == Follow(heap[p].firstChild, "next", Cardinality(DOMAIN heap) + 1)

Backward(p) == Follow(heap[p].lastChild, "prev", Cardinality(DOMAIN heap) + 1)

Places(list, c) == {i \in 1..Len(list) : list[i] = c}

ListOf(p, list) ==
  /\ list = Reverse(Backward(p))
  /\ \A i \in 1..Len(list) : heap[list[i]].parent = p
  /\ \A c \in DOMAIN heap : heap[c].parent = p => Cardinality(Places(list, c)) = 1
  /\ (heap[p].firstChild = NULL) = (heap[p].lastChild = NULL)
  /\ (heap[p].firstChild = NULL) = (list = <<>>)

\* C13: after any sequence of InsertEndChild, Unlink of a child from its
\* parent and DeleteChildren, a node is in the child list of its parent
\* only, and exactly once; the list reads the same from the first child
\* along next as from the last child along prev, reversed; and first child
\* and last child are null together, exactly when there are no children.
ChildListsConsistent ==
  op \in {"Create", "InsertEndChild", "Unlink", "DeleteChildren"}
    => \A p \in DOMAIN heap : ListOf(p, Forward(p))

\* InsertEndChild(parent, node) with a node that is a child already: the
\* node stays in the list it was in
LinkedChildInserted ==
  /\ op = "InsertEndChild" /\ pc = "tangled"
  /\ \E p \in DOMAIN heap : \E i \in 1..Len(Forward(p)) :
       heap[Forward(p)[i]].parent # p

====
